---- MODULE Spec2Model ----
(***************************************************************************)
(* Model of the ra_analysis incremental analysis engine:                   *)
(*   - AnalysisChange, the batch built by add_root / add_file / ...        *)
(*     (crates/ra_analysis/src/lib.rs),                                    *)
(*   - RootDatabase::apply_change / apply_root_change, which turn a batch  *)
(*     into a sequence of salsa input writes                               *)
(*     (crates/ra_analysis/src/imp.rs),                                    *)
(*   - AnalysisHost / Analysis: one writer, many snapshots, cooperative    *)
(*     cancellation through BaseDatabase::check_canceled                   *)
(*     (crates/ra_db/src/lib.rs),                                          *)
(*   - the resolution operations of imp.rs and hover.rs, as functions of   *)
(*     the answers of their collaborators.                                 *)
(*                                                                         *)
(* Every write of an input goes through query_mut(Q).set(k, v) (or         *)
(* set_constant).  Such a call (salsa's with_incremented_revision)         *)
(*   1. increments the pending revision, which is what                     *)
(*      is_current_revision_canceled compares against the revision,        *)
(*   2. takes the query lock for writing, which every live snapshot holds  *)
(*      for reading, so it waits until all snapshots are dropped,          *)
(*   3. increments the revision and stores the value; storing over a key   *)
(*      that was set with set_constant panics.                             *)
(* An input that was never set reads as the Default of its value type.     *)
(***************************************************************************)
EXTENDS Integers, Sequences, FiniteSets, TLC

VARIABLES
    db,                \* the Input Store (the salsa inputs of RootDatabase)
    revision,          \* salsa's revision counter
    pending_revision,  \* salsa's pending revision (raised when a write begins)
    change,            \* the AnalysisChange being built by the caller
    host,              \* AnalysisHost: where it is in apply_change
    snaps,             \* the Analysis snapshots, by slot
    res                \* one resolution-engine call: its inputs and its result

vars == <<db, revision, pending_revision, change, host, snaps, res>>

----------------------------------------------------------------------------
(* Bounds of the model *)

\* Builder calls (add_root, add_file, ...) made in one behaviour.
MaxOps == 2
\* Calls of AnalysisHost::apply_change in one behaviour.
MaxBatches == 2
\* Calls of AnalysisHost::apply_change while snapshots are being read.
MaxBatchesLive == 1
\* Analysis snapshots alive at the same time.
MaxSnaps == 1

RootIds == {1, 2}
FileIds == {1, 2}
Paths == {"a", "b"}
\* Text given to add_file and to LibraryData::prepare / to change_file.
AddTexts == {"x"}
ChangeTexts == {"y"}
Graphs == {"g1"}
SnapIds == 1..MaxSnaps
\* The ids the caller uses while snapshots are being read.
LiveRoots == {1}
LiveFiles == {1}

\* Default::default() of the value types of the inputs.
NoFile == 0
DefaultText == ""
DefaultPath == ""
DefaultRoot == 0
DefaultGraph == "g0"
EmptyFiles == [p \in Paths |-> NoFile]
EmptyIndex == {}

----------------------------------------------------------------------------
(* Sequence helpers *)

RECURSIVE SeqToSet(_)
SeqToSet(s) == IF s = <<>> THEN {} ELSE {Head(s)} \cup SeqToSet(Tail(s))

\* All orders in which the elements of a finite set can be visited.
RECURSIVE Perms(_)
Perms(S) ==
    IF S = {} THEN {<<>>}
    ELSE UNION {{<<x>> \o p : p \in Perms(S \ {x})} : x \in S}

----------------------------------------------------------------------------
(* AnalysisChange and its builder methods *)

EmptyRootChange == [present |-> FALSE, added |-> <<>>, removed |-> <<>>]

EmptyChange ==
    [new_roots |-> <<>>,
     roots_changed |-> [r \in RootIds |-> EmptyRootChange],
     files_changed |-> <<>>,
     libraries_added |-> <<>>,
     crate_graph |-> "none"]

\* Number of builder calls that produced the batch c.
RootOps(rc) == Len(rc.added) + Len(rc.removed)
RECURSIVE SumRootOps(_, _)
SumRootOps(c, S) ==
    IF S = {} THEN 0
    ELSE LET r == CHOOSE x \in S : TRUE
         IN RootOps(c.roots_changed[r]) + SumRootOps(c, S \ {r})
ChangeOps(c) ==
    Len(c.new_roots) + SumRootOps(c, RootIds) + Len(c.files_changed)
    + Len(c.libraries_added) + (IF c.crate_graph = "none" THEN 0 ELSE 1)

add_root(c, root_id, is_local) ==
    [c EXCEPT !.new_roots = Append(@, <<root_id, is_local>>)]

add_file(c, root_id, file_id, path, text) ==
    [c EXCEPT !.roots_changed[root_id] =
        [@ EXCEPT !.present = TRUE,
                  !.added = Append(@, [file_id |-> file_id, path |-> path, text |-> text])]]

change_file(c, file_id, new_text) ==
    [c EXCEPT !.files_changed = Append(@, <<file_id, new_text>>)]

remove_file(c, root_id, file_id, path) ==
    [c EXCEPT !.roots_changed[root_id] =
        [@ EXCEPT !.present = TRUE,
                  !.removed = Append(@, [file_id |-> file_id, path |-> path])]]

add_library(c, data) ==
    [c EXCEPT !.libraries_added = Append(@, data)]

set_crate_graph(c, graph) ==
    [c EXCEPT !.crate_graph = graph]

\* SymbolIndex::for_files: the index is a function of the (file id, text) pairs.
RECURSIVE SymbolIndexForFiles(_)
SymbolIndexForFiles(files) ==
    IF files = <<>> THEN {}
    ELSE {<<Head(files).file_id, Head(files).text>>} \cup SymbolIndexForFiles(Tail(files))

\* LibraryData::prepare(root_id, files)
LibraryDataPrepare(root_id, files) ==
    [root_id |-> root_id,
     root_change |-> [present |-> TRUE, added |-> files, removed |-> <<>>],
     symbol_index |-> SymbolIndexForFiles(files)]

\* The files the caller may add, among the file ids F.
AddFiles(F) == [file_id : F, path : Paths, text : AddTexts]
LibraryFileLists(F) == {<<>>} \cup {<<f>> : f \in AddFiles(F)}

----------------------------------------------------------------------------
(* The Input Store *)

EmptyDb ==
    [file_text |-> [f \in FileIds |-> DefaultText],
     file_relative_path |-> [f \in FileIds |-> DefaultPath],
     file_source_root |-> [f \in FileIds |-> DefaultRoot],
     source_root |-> [r \in RootIds |-> EmptyFiles],
     local_roots |-> <<>>,
     library_roots |-> <<>>,
     library_symbols |-> [r \in RootIds |-> EmptyIndex],
     constant_symbols |-> {},
     crate_graph |-> DefaultGraph]

\* One call query_mut(Q).set(key, value) / set_constant(key, value).
W(q, k, v) == [q |-> q, k |-> k, v |-> v]

\* set_constant over a key that is already constant panics in salsa.
Panics(store, w) == w.q = "LibrarySymbols" /\ w.k \in store.constant_symbols

\* The store after the write w has taken effect.
StoreSet(store, w) ==
    CASE w.q = "FileText" -> [store EXCEPT !.file_text[w.k] = w.v]
      [] w.q = "FileRelativePath" -> [store EXCEPT !.file_relative_path[w.k] = w.v]
      [] w.q = "FileSourceRoot" -> [store EXCEPT !.file_source_root[w.k] = w.v]
      [] w.q = "SourceRoot" -> [store EXCEPT !.source_root[w.k] = w.v]
      [] w.q = "LocalRoots" -> [store EXCEPT !.local_roots = w.v]
      [] w.q = "LibraryRoots" -> [store EXCEPT !.library_roots = w.v]
      [] w.q = "LibrarySymbols" ->
            [store EXCEPT !.library_symbols[w.k] = w.v,
                          !.constant_symbols = @ \cup {w.k}]
      [] w.q = "CrateGraph" -> [store EXCEPT !.crate_graph = w.v]

----------------------------------------------------------------------------
(* RootDatabase::apply_change, as the sequence of input writes it makes *)

\* The run of apply_change so far: the store as written, the writes made (in
\* order), and whether a write panicked (nothing runs after a panic).
StartRun(store) == [db |-> store, w |-> <<>>, panicked |-> FALSE]

\* (mutant) a write of the value the input already has is skipped
Set_if_changed(st, w) ==
    IF st.panicked \/ StoreSet(st.db, w) = st.db THEN st
    ELSE [db |-> StoreSet(st.db, w), w |-> Append(st.w, w), panicked |-> FALSE]

\* self.query_mut(Q).set(k, v)
Set(st, w) ==
    IF st.panicked THEN st
    ELSE IF Panics(st.db, w)
         THEN [db |-> st.db, w |-> Append(st.w, w), panicked |-> TRUE]
         ELSE [db |-> StoreSet(st.db, w), w |-> Append(st.w, w), panicked |-> FALSE]

\* (mutant) the owning root of an added file is not written
RECURSIVE AddedLoop_no_root(_, _, _, _)
AddedLoop_no_root(st, source_root, root_id, added) ==
    IF added = <<>> THEN [st |-> st, source_root |-> source_root]
    ELSE LET a == Head(added)
             s1 == Set(st, W("FileText", a.file_id, a.text))
             s2 == Set(s1, W("FileRelativePath", a.file_id, a.path))
         IN AddedLoop_no_root(s2, [source_root EXCEPT ![a.path] = a.file_id],
                              root_id, Tail(added))

\* for add_file in root_change.added { ... }   (imp.rs 70-78)
RECURSIVE AddedLoop(_, _, _, _)
AddedLoop(st, source_root, root_id, added) ==
    IF added = <<>> THEN [st |-> st, source_root |-> source_root]
    ELSE LET a == Head(added)
             s1 == Set(st, W("FileText", a.file_id, a.text))
             s2 == Set(s1, W("FileRelativePath", a.file_id, a.path))
             s3 == Set(s2, W("FileSourceRoot", a.file_id, root_id))
         IN AddedLoop(s3, [source_root EXCEPT ![a.path] = a.file_id],
                      root_id, Tail(added))

\* (mutant) the text of a removed file is left as it is
RemovedLoop_keeps_text(st, source_root, removed) ==
    IF removed = <<>> THEN [st |-> st, source_root |-> source_root]
    ELSE [st |-> st,
          source_root |-> [p \in Paths |->
                             IF \E i \in 1..Len(removed) : removed[i].path = p
                             THEN NoFile ELSE source_root[p]]]

\* for remove_file in root_change.removed { ... }   (imp.rs 79-83)
RECURSIVE RemovedLoop(_, _, _)
RemovedLoop(st, source_root, removed) ==
    IF removed = <<>> THEN [st |-> st, source_root |-> source_root]
    ELSE LET r == Head(removed)
             s1 == Set(st, W("FileText", r.file_id, DefaultText))
         IN RemovedLoop(s1, [source_root EXCEPT ![r.path] = NoFile], Tail(removed))

\* (mutant) the changed file set is not written back
apply_root_change_unsaved(st, root_id, root_change) ==
    LET source_root == st.db.source_root[root_id]
        a == AddedLoop(st, source_root, root_id, root_change.added)
        r == RemovedLoop(a.st, a.source_root, root_change.removed)
    IN r.st

\* (mutant) the removed files are handled before the added files
apply_root_change_removed_first(st, root_id, root_change) ==
    LET source_root == st.db.source_root[root_id]
        r == RemovedLoop(st, source_root, root_change.removed)
        a == AddedLoop(r.st, r.source_root, root_id, root_change.added)
    IN Set(a.st, W("SourceRoot", root_id, a.source_root))

\* fn apply_root_change (imp.rs 68-86)
apply_root_change(st, root_id, root_change) ==
    LET source_root == st.db.source_root[root_id]
        a == AddedLoop(st, source_root, root_id, root_change.added)
        r == RemovedLoop(a.st, a.source_root, root_change.removed)
    IN Set(r.st, W("SourceRoot", root_id, r.source_root))

\* for (root_id, is_local) in change.new_roots { ... }   (imp.rs 32-38)
RECURSIVE NewRootsLoop(_, _, _)
NewRootsLoop(st, local_roots, new_roots) ==
    IF new_roots = <<>> THEN [st |-> st, local_roots |-> local_roots]
    ELSE LET root_id == Head(new_roots)[1]
             is_local == Head(new_roots)[2]
             s1 == Set(st, W("SourceRoot", root_id, EmptyFiles))
         IN NewRootsLoop(s1,
                         IF is_local THEN Append(local_roots, root_id) ELSE local_roots,
                         Tail(new_roots))

NewRootsStep(st, new_roots) ==
    IF new_roots = <<>> THEN st
    ELSE LET l == NewRootsLoop(st, st.db.local_roots, new_roots)
         IN Set(l.st, W("LocalRoots", "unit", l.local_roots))

\* (mutant) the loop stops after the first root it visits
RootsChangedLoop_first_only(st, roots_changed, order) ==
    IF order = <<>> THEN st
    ELSE apply_root_change(st, Head(order), roots_changed[Head(order)])

\* for (root_id, root_change) in change.roots_changed { ... }, the entries of
\* the hash map being visited in the order `order`.   (imp.rs 43-45)
RECURSIVE RootsChangedLoop(_, _, _)
RootsChangedLoop(st, roots_changed, order) ==
    IF order = <<>> THEN st
    ELSE RootsChangedLoop(apply_root_change(st, Head(order), roots_changed[Head(order)]),
                          roots_changed, Tail(order))

\* for (file_id, text) in change.files_changed { ... }   (imp.rs 46-48)
RECURSIVE FilesChangedLoop(_, _)
FilesChangedLoop(st, files_changed) ==
    IF files_changed = <<>> THEN st
    ELSE FilesChangedLoop(Set(st, W("FileText", Head(files_changed)[1], Head(files_changed)[2])),
                          Tail(files_changed))

\* for library in change.libraries_added { ... }   (imp.rs 51-58)
RECURSIVE LibrariesLoop(_, _, _)
LibrariesLoop(st, libraries, libraries_added) ==
    IF libraries_added = <<>> THEN [st |-> st, libraries |-> libraries]
    ELSE LET library == Head(libraries_added)
             s1 == Set(st, W("SourceRoot", library.root_id, EmptyFiles))
             s2 == Set(s1, W("LibrarySymbols", library.root_id, library.symbol_index))
             s3 == apply_root_change(s2, library.root_id, library.root_change)
         IN LibrariesLoop(s3, Append(libraries, library.root_id), Tail(libraries_added))

LibrariesStep(st, libraries_added) ==
    IF libraries_added = <<>> THEN st
    ELSE LET l == LibrariesLoop(st, st.db.library_roots, libraries_added)
         IN Set(l.st, W("LibraryRoots", "unit", l.libraries))

CrateGraphStep(st, crate_graph) ==
    IF crate_graph = "none" THEN st
    ELSE Set(st, W("CrateGraph", "unit", crate_graph))

\* The roots that have an entry in change.roots_changed.
ChangedRoots(c) == {r \in RootIds : c.roots_changed[r].present}

\* (mutant) the standalone text replacements are made before the files of the
\* roots are added and removed
apply_change_texts_first(store, c, order) ==
    LET s1 == NewRootsStep(StartRun(store), c.new_roots)
        s2 == FilesChangedLoop(s1, c.files_changed)
        s3 == RootsChangedLoop(s2, c.roots_changed, order)
        s4 == LibrariesStep(s3, c.libraries_added)
    IN CrateGraphStep(s4, c.crate_graph)

\* apply_change(change) run on `store`, the map's entries visited in `order`.
apply_change(store, c, order) ==
    LET s1 == NewRootsStep(StartRun(store), c.new_roots)
        s2 == RootsChangedLoop(s1, c.roots_changed, order)
        s3 == FilesChangedLoop(s2, c.files_changed)
        s4 == LibrariesStep(s3, c.libraries_added)
    IN CrateGraphStep(s4, c.crate_graph)

----------------------------------------------------------------------------
(* The caller builds an AnalysisChange (lib.rs 110-152) *)

\* The caller may make another builder call: the host is not inside
\* apply_change, and the batch has had fewer than lim calls.
MayBuild ==
    /\ host.pc = "idle"
    /\ host.nbatches < MaxBatches
    /\ host.ncalls + ChangeOps(change) < MaxOps

Built(c) ==
    /\ change' = c
    /\ UNCHANGED <<db, revision, pending_revision, host, snaps, res>>

AddRoot ==
    /\ MayBuild
    /\ \E r \in RootIds, is_local \in BOOLEAN : Built(add_root(change, r, is_local))

AddFile ==
    /\ MayBuild
    /\ \E r \in RootIds, a \in AddFiles(FileIds) :
          Built(add_file(change, r, a.file_id, a.path, a.text))

ChangeFile ==
    /\ MayBuild
    /\ \E f \in FileIds, t \in ChangeTexts : Built(change_file(change, f, t))

RemoveFile ==
    /\ MayBuild
    /\ \E r \in RootIds, f \in FileIds, p \in Paths :
          Built(remove_file(change, r, f, p))

AddLibrary ==
    /\ MayBuild
    /\ \E r \in RootIds, files \in LibraryFileLists(FileIds) :
          Built(add_library(change, LibraryDataPrepare(r, files)))

SetCrateGraph ==
    /\ MayBuild
    /\ change.crate_graph = "none"
    /\ \E g \in Graphs : Built(set_crate_graph(change, g))

----------------------------------------------------------------------------
(* AnalysisHost (lib.rs 296-315) *)

IdleHost ==
    [pc |-> "idle",        \* "idle", "signal", "lock" or "panicked"
     todo |-> <<>>,        \* the writes apply_change has still to make
     nbatches |-> 0,       \* calls of apply_change so far
     ncalls |-> 0,         \* builder calls behind the batches applied so far
     \* of the last call of apply_change made beside the snapshots:
     rev0 |-> 0,           \* the revision when it was entered
     snaps0 |-> {},        \* the snapshots alive when it was entered
     nwrites |-> 0]        \* the writes it had to make

LiveSnaps == {s \in SnapIds : snaps[s].alive}

\* (mutant) the comparison of the two revisions the wrong way round
check_canceled_swapped == IF revision > pending_revision THEN "Canceled" ELSE "Ok"

\* BaseDatabase::check_canceled: is_current_revision_canceled()
check_canceled == IF pending_revision > revision THEN "Canceled" ELSE "Ok"

\* AnalysisHost::apply_change with no snapshot alive: every write takes the
\* lock at once, and the call runs to its end (or to the panic).
ApplyChange ==
    /\ host.pc = "idle"
    /\ host.nbatches < MaxBatches
    /\ LiveSnaps = {}
    /\ \E order \in Perms(ChangedRoots(change)) :
          LET run == apply_change(db, change, order)
          IN /\ db' = run.db
             /\ revision' = revision + Len(run.w)
             /\ pending_revision' = pending_revision + Len(run.w)
             /\ host' = [host EXCEPT !.pc = IF run.panicked THEN "panicked" ELSE "idle",
                                     !.nbatches = @ + 1,
                                     !.ncalls = @ + ChangeOps(change)]
    /\ change' = EmptyChange
    /\ UNCHANGED <<snaps, res>>

\* The batches given to apply_change while snapshots are being read: the
\* empty one, and batches that make one, two and four writes.
LiveBatches ==
    {EmptyChange}
    \cup {change_file(EmptyChange, f, t) : f \in LiveFiles, t \in ChangeTexts}
    \cup {add_root(EmptyChange, r, TRUE) : r \in LiveRoots}
    \cup {add_library(EmptyChange, LibraryDataPrepare(r, <<>>)) : r \in LiveRoots}

\* AnalysisHost::apply_change(c) is entered: the writes it will make are those
\* apply_change computes from the store, which only this call changes.  A
\* batch that makes no write (an empty AnalysisChange) returns at once.
ApplyBegin ==
    /\ host.pc = "idle"
    /\ host.nbatches < MaxBatchesLive
    /\ \E c \in LiveBatches : \E order \in Perms(ChangedRoots(c)) :
          LET run == apply_change(db, c, order)
          IN host' = [pc |-> IF run.w = <<>> THEN "idle" ELSE "signal",
                      todo |-> run.w,
                      nbatches |-> host.nbatches + 1,
                      ncalls |-> host.ncalls,
                      rev0 |-> revision,
                      snaps0 |-> LiveSnaps, nwrites |-> Len(run.w)]
    /\ UNCHANGED <<db, revision, pending_revision, change, snaps, res>>

\* A read of the snapshot is in flight.
Reading(s) == snaps[s].alive /\ snaps[s].status = "running"

\* (mutant) the write goes for the lock without raising the pending revision
SetSignal_silent ==
    /\ host.pc = "signal"
    /\ host' = [host EXCEPT !.pc = "lock"]
    /\ UNCHANGED <<db, revision, pending_revision, change, snaps, res>>

\* set(..), first half: the pending revision is raised, which cancels the
\* current revision for every snapshot; then the call waits for the lock.
SetSignal ==
    /\ host.pc = "signal"
    /\ pending_revision' = pending_revision + 1
    /\ host' = [host EXCEPT !.pc = "lock"]
    /\ snaps' = [s \in SnapIds |->
                  IF Reading(s) THEN [snaps[s] EXCEPT !.overlapped = TRUE] ELSE snaps[s]]
    /\ UNCHANGED <<db, revision, change, res>>

\* (mutant) the writer does not wait for the snapshots
LockFree_nowait == TRUE

\* The query lock can be taken for writing: no snapshot holds it.
LockFree == LiveSnaps = {}

\* set(..), second half: with the lock, the revision is incremented and the
\* value stored (or the call panics, over a constant).
SetCommit ==
    /\ host.pc = "lock"
    /\ LockFree
    /\ revision' = revision + 1
    /\ LET w == Head(host.todo)
       IN IF Panics(db, w)
          THEN /\ db' = db
               /\ host' = [host EXCEPT !.pc = "panicked", !.todo = <<>>]
          ELSE /\ db' = StoreSet(db, w)
               /\ host' = [host EXCEPT !.todo = Tail(@),
                                       !.pc = IF Tail(host.todo) = <<>> THEN "idle"
                                              ELSE "signal"]
    /\ UNCHANGED <<pending_revision, change, snaps, res>>

----------------------------------------------------------------------------
(* Analysis, the snapshot (lib.rs 317-464) *)

\* The query operations of Analysis that return Cancelable<..>, with the
\* number of collaborator calls on their longest path that can fail with
\* Canceled (the calls followed by `?`).
Ops ==
    {"hover", "approximately_resolve_symbol", "find_all_refs", "rename",
     "resolve_callable", "diagnostics", "type_of", "parent_module", "crate_for",
     "symbol_search", "assists", "crate_root"}

\* (mutant) every operation makes a cancelable call
CancelableCalls_all(op) == 1

CancelableCalls(op) ==
    CASE op = "hover" -> 3                         \* module_from_declaration, function_from_source, infer
      [] op = "approximately_resolve_symbol" -> 2  \* function_from_child_node, index_resolve
      [] op = "find_all_refs" -> 1                 \* function_from_child_node
      [] op = "rename" -> 1                        \* find_all_refs
      [] op = "resolve_callable" -> 2              \* index_resolve, function_from_source
      [] op = "diagnostics" -> 1                   \* module_from_file_id
      [] op = "type_of" -> 2                       \* function_from_source, infer
      [] op = "parent_module" -> 1                 \* module_from_position
      [] op = "crate_for" -> 2                     \* module_from_file_id, krate
      [] op = "symbol_search" -> 1                 \* world_symbols
      [] op = "assists" -> 0                       \* Ok(self.db.assists(frange))
      [] op = "crate_root" -> 0                    \* Ok(self.db.crate_root(crate_id))

NoSnap ==
    [alive |-> FALSE,
     taken |-> EmptyDb,      \* the store when the snapshot was taken
     op |-> "none",          \* the read in flight, or the last one
     calls |-> 0,            \* cancelable calls the read has still to make
     status |-> "idle",      \* "idle", "running", "ok" or "canceled"
     seen |-> {},            \* the stores the read has read from
     overlapped |-> FALSE]   \* a write began while the read was in flight

\* AnalysisHost::analysis: needs the host borrowed shared, so it cannot run
\* while apply_change (which borrows it mutably) does.
TakeSnapshot(s) ==
    /\ host.pc = "idle"
    /\ ~snaps[s].alive
    /\ snaps' = [snaps EXCEPT ![s] = [NoSnap EXCEPT !.alive = TRUE, !.taken = db]]
    /\ host' = [host EXCEPT !.snaps0 = @ \ {s}]
    /\ UNCHANGED <<db, revision, pending_revision, change, res>>

\* A query operation is called on a snapshot, which is used for one query
\* and then dropped; the operation first reads its file from the store.
StartRead(s) ==
    /\ snaps[s].alive
    /\ snaps[s].status = "idle"
    /\ \E op \in Ops :
          snaps' = [snaps EXCEPT ![s] =
                      [@ EXCEPT !.op = op,
                                !.calls = CancelableCalls(op),
                                !.status = "running", !.seen = {db},
                                !.overlapped = FALSE]]
    /\ UNCHANGED <<db, revision, pending_revision, change, host, res>>

\* The read makes a collaborator call that can fail with Canceled.  The
\* collaborator may or may not poll check_canceled (a memoized answer does
\* not); a Canceled answer ends the read through `?`.
ReadCall(s) ==
    /\ Reading(s)
    /\ snaps[s].calls > 0
    /\ \E polls \in BOOLEAN :
          snaps' = [snaps EXCEPT ![s] =
                      IF polls /\ check_canceled = "Canceled"
                      THEN [@ EXCEPT !.status = "canceled", !.calls = 0]
                      ELSE [@ EXCEPT !.calls = @ - 1, !.seen = @ \cup {db}]]
    /\ UNCHANGED <<db, revision, pending_revision, change, host, res>>

\* The read returns Ok(..).
ReadReturn(s) ==
    /\ Reading(s)
    /\ snaps[s].calls = 0
    /\ snaps' = [snaps EXCEPT ![s] = [@ EXCEPT !.status = "ok"]]
    /\ UNCHANGED <<db, revision, pending_revision, change, host, res>>

\* The Analysis is dropped, which releases its hold on the query lock.
DropSnapshot(s) ==
    /\ snaps[s].alive
    /\ snaps[s].status # "running"
    /\ snaps' = [snaps EXCEPT ![s] = [@ EXCEPT !.alive = FALSE]]
    /\ UNCHANGED <<db, revision, pending_revision, change, host, res>>

----------------------------------------------------------------------------
(* The Resolution Engine (imp.rs, hover.rs).  An operation is a function of
   what the syntax tree holds at the position and of what its collaborators
   answer; its result carries the calls it made to Cancelable collaborators,
   in order, each with its answer. *)

MaxSymbols == 2      \* symbols answered by one lookup in the symbol index
MaxIndex == 6        \* symbols the index holds when a reference is resolved
MaxRefs == 2         \* references to one binding
MaxProblems == 2     \* module problems of one file
MaxParams == 3       \* parameters in the signature of a function
MaxNesting == 2      \* call expressions around the cursor, one inside the other
MaxCommas == 2       \* commas between the argument list's start and the cursor

\* A Cancelable<Option<T>> answer of a collaborator.
Answers3 == {"Canceled", "None", "Some"}

SeqsUpTo(S, n) == UNION {[1..k -> S] : k \in 0..n}

PositionFile == 1                 \* position.file_id, frange.file_id
OtherFile == 2                    \* a file other than the queried one
NameRefText == "foo"              \* name_ref.text()
NameRefRange == <<10, 13>>        \* name_ref.syntax().range()
NameRange == <<4, 7>>             \* name.syntax().range()
EmptyRange == <<0, 0>>            \* TextRange::offset_len(0, 0)
ExprRange == <<10, 15>>           \* expr.syntax().range()

\* FileSymbol values of the symbol index: file, name, ptr.kind(), ptr.range()
FileSymbols ==
    {[file_id |-> OtherFile, name |-> NameRefText, kind |-> "FN_DEF", range |-> <<0, 3>>],
     [file_id |-> OtherFile, name |-> NameRefText, kind |-> "STRUCT_DEF", range |-> <<20, 23>>]}

\* What symbol_index::world_symbols finds in the index: it is canceled, or
\* the index holds these symbols.
WorldAnswers ==
    {[canceled |-> TRUE, symbols |-> <<>>]} \cup
    {[canceled |-> FALSE, symbols |-> s] : s \in SeqsUpTo(FileSymbols, MaxSymbols)}

\* The symbols a larger index may hold: the k-th has the name of the
\* reference, but for the third, whose name differs from it in case only.
IndexSymbol(k) ==
    [file_id |-> OtherFile,
     name |-> IF k = 3 THEN "Foo" ELSE NameRefText,
     kind |-> IF k % 2 = 0 THEN "STRUCT_DEF" ELSE "FN_DEF",
     range |-> <<100 * k, 100 * k + 3>>]

RECURSIVE PickSymbols(_, _)
PickSymbols(S, k) ==
    IF k > MaxIndex THEN <<>>
    ELSE (IF k \in S THEN <<IndexSymbol(k)>> ELSE <<>>) \o PickSymbols(S, k + 1)

\* The states of the index when a reference is resolved: any of the symbols.
IndexAnswers ==
    {[canceled |-> TRUE, symbols |-> <<>>]} \cup
    {[canceled |-> FALSE, symbols |-> PickSymbols(S, 1)] : S \in SUBSET (1..MaxIndex)}

Call(name, canceled) ==
    [call |-> name, answer |-> IF canceled THEN "Canceled" ELSE "Ok"]
Canceled(calls) == [result |-> "Canceled", calls |-> calls]
Ok(value, calls) == [result |-> "Ok", value |-> value, calls |-> calls]

UsizeMax == 2147483647            \* usize::max_value(), as far as the model counts

\* Query::new
Query_new(query) ==
    [query |-> query, only_types |-> FALSE, libs |-> FALSE, exact |-> FALSE,
     limit |-> UsizeMax]

\* Query::new(name); query.exact(); query.limit(4)
IndexQuery(name) == [Query_new(name) EXCEPT !.exact = TRUE, !.limit = 4]

Min(a, b) == IF a < b THEN a ELSE b

\* query.to_lowercase(), for the names of the model
Lowercased(name) == IF name = "Foo" THEN "foo" ELSE name

\* symbol_index::world_symbols: for an exact query the symbols of the index
\* whose name is the query's text, case-sensitively, otherwise the symbols
\* whose name is the text but for the case; the first `limit` of them.
world_symbols(world, query) ==
    LET calls == <<Call("world_symbols", world.canceled)>>
        exact(symbol) == IF query.exact THEN symbol.name = query.query
                         ELSE Lowercased(symbol.name) = Lowercased(query.query)
        found == SelectSeq(world.symbols, exact)
    IN IF world.canceled THEN Canceled(calls)
       ELSE Ok(SubSeq(found, 1, Min(query.limit, Len(found))), calls)

\* (mutant) query.limit(4) is left out
index_resolve_unlimited(name, world) ==
    world_symbols(world, [IndexQuery(name) EXCEPT !.limit = UsizeMax])

\* fn index_resolve
index_resolve(name, world) == world_symbols(world, IndexQuery(name))

\* (mutant) the target of an index symbol carries no node pointer
from_symbol_no_ptr(symbol) ==
    [file_id |-> symbol.file_id, name |-> symbol.name, kind |-> symbol.kind,
     range |-> symbol.range, ptr |-> "None"]

\* NavigationTarget::from_symbol
from_symbol(symbol) ==
    [file_id |-> symbol.file_id, name |-> symbol.name, kind |-> symbol.kind,
     range |-> symbol.range, ptr |-> "Some"]

\* The target pushed for a local binding (imp.rs 154-160).
LocalTarget ==
    [file_id |-> PositionFile, name |-> NameRefText, kind |-> "NAME",
     range |-> NameRange, ptr |-> "None"]

\* The target pushed for the module of a `mod x;` declaration (imp.rs 179-190).
ModuleTarget(child_name) ==
    [file_id |-> OtherFile, name |-> IF child_name THEN NameRefText ELSE "",
     kind |-> "MODULE", range |-> EmptyRange, ptr |-> "None"]

NoResolution == [some |-> FALSE, reference_range |-> EmptyRange, resolves_to |-> <<>>]
Resolution(range, targets) ==
    [some |-> TRUE, reference_range |-> range, resolves_to |-> targets]

\* The positions approximately_resolve_symbol is asked about: on a name
\* reference, on a name, or on neither.
ResolveInputsOver(worlds) ==
    {[name_ref |-> TRUE, fn_descr |-> f, local |-> l, world |-> w,
      name |-> FALSE, module |-> "no", child_module |-> "None", child_name |-> FALSE] :
        f \in Answers3, l \in BOOLEAN, w \in worlds}
    \cup
    {[name_ref |-> FALSE, fn_descr |-> "None", local |-> FALSE,
      world |-> [canceled |-> FALSE, symbols |-> <<>>],
      name |-> n, module |-> m, child_module |-> c, child_name |-> cn] :
        n \in BOOLEAN, m \in {"no", "inline", "semi"}, c \in Answers3, cn \in BOOLEAN}
ResolveInputs == ResolveInputsOver(WorldAnswers)

\* The cursor is on a name (imp.rs 172-197).
resolve_name(i) ==
    IF i.name /\ i.module = "semi"
    THEN LET c1 == <<Call("module_from_declaration", i.child_module = "Canceled")>>
         IN IF i.child_module = "Canceled" THEN Canceled(c1)
            ELSE IF i.child_module = "Some"
            THEN Ok(Resolution(NameRange, <<ModuleTarget(i.child_name)>>), c1)
            ELSE Ok(NoResolution, c1)
    ELSE Ok(NoResolution, <<>>)

\* (mutant) no return after the local binding: the index results follow it
approximately_resolve_symbol_no_return(i) ==
    IF i.name_ref
    THEN LET c1 == <<Call("function_from_child_node", i.fn_descr = "Canceled")>>
         IN IF i.fn_descr = "Canceled" THEN Canceled(c1)
            ELSE LET local == IF i.fn_descr = "Some" /\ i.local
                              THEN <<LocalTarget>> ELSE <<>>
                     ix == index_resolve(NameRefText, i.world)
                     c2 == c1 \o ix.calls \o <<Call("index_resolve", ix.result = "Canceled")>>
                 IN IF ix.result = "Canceled" THEN Canceled(c2)
                    ELSE Ok(Resolution(NameRefRange,
                                       local \o [k \in 1..Len(ix.value) |->
                                                    from_symbol(ix.value[k])]),
                            c2)
    ELSE resolve_name(i)

\* RootDatabase::approximately_resolve_symbol
approximately_resolve_symbol(i) ==
    IF i.name_ref
    THEN LET c1 == <<Call("function_from_child_node", i.fn_descr = "Canceled")>>
         IN IF i.fn_descr = "Canceled" THEN Canceled(c1)
            ELSE IF i.fn_descr = "Some" /\ i.local
            THEN Ok(Resolution(NameRefRange, <<LocalTarget>>), c1)
            ELSE LET ix == index_resolve(NameRefText, i.world)
                     c2 == c1 \o ix.calls \o <<Call("index_resolve", ix.result = "Canceled")>>
                 IN IF ix.result = "Canceled" THEN Canceled(c2)
                    ELSE Ok(Resolution(NameRefRange,
                                       [k \in 1..Len(ix.value) |-> from_symbol(ix.value[k])]),
                            c2)
    ELSE resolve_name(i)

\* The queries symbol_search is asked: fuzzy, or exact with the limit of four.
SearchInputs ==
    [world : WorldAnswers \cup IndexAnswers,
     query : {Query_new(NameRefText), IndexQuery(NameRefText)}]

\* Analysis::symbol_search
symbol_search(i) ==
    LET ws == world_symbols(i.world, i.query)
    IN IF ws.result = "Canceled" THEN Canceled(ws.calls)
       ELSE Ok([k \in 1..Len(ws.value) |-> from_symbol(ws.value[k])], ws.calls)

\* The positions parent_module is asked about.
ParentModuleInputs == [module : Answers3, ast_module : BOOLEAN]

\* RootDatabase::parent_module
parent_module(i) ==
    LET c1 == <<Call("module_from_position", i.module = "Canceled")>>
    IN IF i.module = "Canceled" THEN Canceled(c1)
       ELSE IF i.module = "None" THEN Ok(<<>>, c1)
       ELSE IF ~i.ast_module THEN Ok(<<>>, c1)
       ELSE Ok(<<[file_id |-> OtherFile, name |-> NameRefText, kind |-> "MODULE",
                  range |-> NameRange, ptr |-> "None"]>>, c1)

\* The files crate_for is asked about.
CrateForInputs == [module : Answers3, krate : Answers3]
CrateIdOfModule == 1              \* krate.crate_id()

\* RootDatabase::crate_for
crate_for(i) ==
    LET c1 == <<Call("module_from_file_id", i.module = "Canceled")>>
    IN IF i.module = "Canceled" THEN Canceled(c1)
       ELSE IF i.module = "None" THEN Ok(<<>>, c1)
       ELSE LET c2 == c1 \o <<Call("krate", i.krate = "Canceled")>>
            IN IF i.krate = "Canceled" THEN Canceled(c2)
               ELSE IF i.krate = "None" THEN Ok(<<>>, c2)
               ELSE Ok(<<CrateIdOfModule>>, c2)

\* The positions find_all_refs is asked about: on a binding pattern, on a
\* name reference, or on neither; refs are the ranges scopes.find_all_refs
\* answers for the binding.
RefRanges == [k \in 1..MaxRefs |-> <<20 * k, 20 * k + 3>>]
FindRefsInputs ==
    [bind_pat : BOOLEAN, name_ref : BOOLEAN, fn_descr : Answers3, local : BOOLEAN,
     decl_bind_pat : BOOLEAN, has_name : BOOLEAN,
     refs : {SubSeq(RefRanges, 1, n) : n \in 0..MaxRefs}]

NoBinding == [some |-> FALSE]
FoundBinding == [some |-> TRUE]

\* (mutant) a canceled function_from_child_node is taken for "no function"
find_binding_swallows(i) ==
    LET c1 == <<Call("function_from_child_node", i.fn_descr = "Canceled")>>
    IN IF i.bind_pat
       THEN IF i.fn_descr = "Some" THEN Ok(FoundBinding, c1) ELSE Ok(NoBinding, c1)
       ELSE IF ~i.name_ref THEN Ok(NoBinding, <<>>)
       ELSE IF i.fn_descr # "Some" THEN Ok(NoBinding, c1)
       ELSE IF ~i.local THEN Ok(NoBinding, c1)
       ELSE IF ~i.decl_bind_pat THEN Ok(NoBinding, c1)
       ELSE Ok(FoundBinding, c1)

\* fn find_binding (imp.rs 226-254)
find_binding(i) ==
    LET c1 == <<Call("function_from_child_node", i.fn_descr = "Canceled")>>
    IN IF i.bind_pat
       THEN IF i.fn_descr = "Canceled" THEN Canceled(c1)
            ELSE IF i.fn_descr = "None" THEN Ok(NoBinding, c1)
            ELSE Ok(FoundBinding, c1)
       ELSE IF ~i.name_ref THEN Ok(NoBinding, <<>>)
       ELSE IF i.fn_descr = "Canceled" THEN Canceled(c1)
       ELSE IF i.fn_descr = "None" THEN Ok(NoBinding, c1)
       ELSE IF ~i.local THEN Ok(NoBinding, c1)
       ELSE IF ~i.decl_bind_pat THEN Ok(NoBinding, c1)
       ELSE Ok(FoundBinding, c1)

\* (mutant) the name of the declaration is left out of the result
find_all_refs_no_decl(i) ==
    LET b == find_binding(i)
        c1 == b.calls \o <<Call("find_binding", b.result = "Canceled")>>
    IN IF b.result = "Canceled" THEN Canceled(c1)
       ELSE IF ~b.value.some THEN Ok(<<>>, c1)
       ELSE Ok([k \in 1..Len(i.refs) |-> <<PositionFile, i.refs[k]>>], c1)

\* RootDatabase::find_all_refs
find_all_refs(i) ==
    LET b == find_binding(i)
        c1 == b.calls \o <<Call("find_binding", b.result = "Canceled")>>
    IN IF b.result = "Canceled" THEN Canceled(c1)
       ELSE IF ~b.value.some THEN Ok(<<>>, c1)
       ELSE Ok((IF i.has_name THEN <<<<PositionFile, NameRange>>>> ELSE <<>>)
               \o [k \in 1..Len(i.refs) |-> <<PositionFile, i.refs[k]>>],
               c1)

NewNames == {"bar"}

\* (mutant) the first range, the declaration, is not renamed
rename_skips_first(i, new_name) ==
    LET refs == find_all_refs(i)
        c1 == refs.calls \o <<Call("find_all_refs", refs.result = "Canceled")>>
    IN IF refs.result = "Canceled" THEN Canceled(c1)
       ELSE Ok([k \in 1..(Len(refs.value) - 1) |->
                   [file_id |-> refs.value[k + 1][1],
                    edit |-> <<[delete |-> refs.value[k + 1][2], insert |-> new_name]>>]],
               c1)

\* RootDatabase::rename
rename(i, new_name) ==
    LET refs == find_all_refs(i)
        c1 == refs.calls \o <<Call("find_all_refs", refs.result = "Canceled")>>
    IN IF refs.result = "Canceled" THEN Canceled(c1)
       ELSE Ok([k \in 1..Len(refs.value) |->
                   [file_id |-> refs.value[k][1],
                    edit |-> <<[delete |-> refs.value[k][2], insert |-> new_name]>>]],
               c1)

\* The positions resolve_callable is asked about.  enclosing lists the call
\* expressions (CallExpr, MethodCallExpr) that contain the cursor, the
\* innermost first; name_ref, arg_list and commas are those of the expression
\* that FnCallNode::with_node picks.  function and signature
\* are what function_from_source and signature_info answer for a function
\* definition of the index.
ArgListStart == 13                \* arg_list.syntax().range().start()
\* position.offset: on the name of the callee, or behind the opening
\* parenthesis of the argument list
CursorOffsets == {11, 14}
CallableInputs ==
    [enclosing : SeqsUpTo({"call", "method"}, MaxNesting), name_ref : BOOLEAN,
     world : WorldAnswers, function : Answers3, signature : BOOLEAN,
     num_params : 0..MaxParams, has_self : BOOLEAN, arg_list : BOOLEAN,
     commas : 0..MaxCommas, offset : CursorOffsets]

NoParameter == [some |-> FALSE, index |-> 0]
Parameter(n) == [some |-> TRUE, index |-> n]
NoCallable == [some |-> FALSE, num_params |-> 0, current_parameter |-> NoParameter]

\* find_node_at_offset::<N>: the nearest node of the kind around the cursor
NearestOfKind(enclosing, kind) ==
    LET at == {k \in 1..Len(enclosing) : enclosing[k] = kind}
    IN IF at = {} THEN [some |-> FALSE, kind |-> kind, depth |-> 0]
       ELSE [some |-> TRUE, kind |-> kind,
             depth |-> CHOOSE k \in at : \A j \in at : k <= j]

\* FnCallNode::with_node
with_node(enclosing) ==
    IF NearestOfKind(enclosing, "call").some
    THEN NearestOfKind(enclosing, "call")
    ELSE NearestOfKind(enclosing, "method")

\* (mutant) the self parameter is not counted
current_parameter_no_self(i) ==
    IF i.num_params = 1
    THEN IF ~i.has_self THEN Parameter(0) ELSE NoParameter
    ELSE IF i.num_params > 1
    THEN IF i.arg_list THEN Parameter(i.commas) ELSE NoParameter
    ELSE NoParameter

\* imp.rs 366-400
current_parameter(i) ==
    IF i.num_params = 1
    THEN IF ~i.has_self THEN Parameter(0) ELSE NoParameter
    ELSE IF i.num_params > 1
    THEN IF i.arg_list
         THEN Parameter(i.commas + (IF i.has_self THEN 1 ELSE 0))
         ELSE NoParameter
    ELSE NoParameter

\* The commas are counted (imp.rs 375-383).
CountsCommas(i) == i.num_params > 1 /\ i.arg_list

\* TextRange::from_to(start, position.offset)
range_search(i) == <<ArgListStart, i.offset>>

\* TextRange::from_to asserts that the start is not behind the end.
Panicked(value, calls) == [result |-> "Panicked", value |-> value, calls |-> calls]

\* for symbol in file_symbols { ... }   (imp.rs 354-405)
RECURSIVE SymbolsLoop(_, _, _)
SymbolsLoop(i, file_symbols, calls) ==
    IF file_symbols = <<>> THEN Ok(NoCallable, calls)
    ELSE IF Head(file_symbols).kind # "FN_DEF"
    THEN SymbolsLoop(i, Tail(file_symbols), calls)
    ELSE LET c1 == calls \o <<Call("function_from_source", i.function = "Canceled")>>
         IN IF i.function = "Canceled" THEN Canceled(c1)
            ELSE IF i.function = "None" THEN Ok(NoCallable, c1)
            ELSE IF ~i.signature THEN SymbolsLoop(i, Tail(file_symbols), c1)
            ELSE IF CountsCommas(i) /\ range_search(i)[1] > range_search(i)[2]
            THEN Panicked([range_search |-> range_search(i)], c1)
            ELSE Ok([some |-> TRUE, num_params |-> i.num_params,
                     current_parameter |-> current_parameter(i),
                     calling_node |-> with_node(i.enclosing),
                     range_search |-> IF CountsCommas(i) THEN range_search(i)
                                      ELSE EmptyRange], c1)

\* RootDatabase::resolve_callable
resolve_callable(i) ==
    IF ~with_node(i.enclosing).some THEN Ok(NoCallable, <<>>)
    ELSE IF ~i.name_ref THEN Ok(NoCallable, <<>>)
    ELSE LET ix == index_resolve(NameRefText, i.world)
             c1 == ix.calls \o <<Call("index_resolve", ix.result = "Canceled")>>
         IN IF ix.result = "Canceled" THEN Canceled(c1)
            ELSE SymbolsLoop(i, ix.value, c1)

\* LocalEdit values of ra_editor: label, edit, cursor_position
LocalEdits ==
    {[label |-> "fix", edit |-> <<[delete |-> <<0, 1>>, insert |-> ""]>>, cursor |-> c] :
        c \in {"None", "Some"}}

\* SourceChange::from_local_edit
from_local_edit(file_id, edit) ==
    [label |-> edit.label,
     source_file_edits |-> <<[file_id |-> file_id, edit |-> edit.edit]>>,
     file_system_edits |-> <<>>,
     cursor_position |-> IF edit.cursor = "Some"
                         THEN [some |-> TRUE, file_id |-> file_id]
                         ELSE [some |-> FALSE]]

\* What ra_editor::diagnostics answers for the file, and Module::problems.
EditorDiagnostics ==
    {<<>>} \cup
    {<<[range |-> <<0, 1>>, msg |-> "syntax error", severity |-> "Error",
        fix |-> [some |-> FALSE]]>>} \cup
    {<<[range |-> <<0, 1>>, msg |-> "unnecessary braces", severity |-> "WeakWarning",
        fix |-> [some |-> TRUE, edit |-> e]]>> : e \in LocalEdits}
NameNodeRanges == {NameRange, <<24, 27>>}      \* name_node.range()
Problems ==
    {[name_node |-> n, kind |-> "UnresolvedModule", move_to |-> "", candidate |-> "foo.rs"] :
        n \in NameNodeRanges}
    \cup
    {[name_node |-> n, kind |-> "NotDirOwner", move_to |-> "bar", candidate |-> "foo.rs"] :
        n \in NameNodeRanges}
DiagnosticsInputs ==
    [editor : EditorDiagnostics, module : Answers3,
     problems : SeqsUpTo(Problems, MaxProblems)]

SourceRootOfFile == 1             \* self.file_source_root(file_id)

\* RelativePathBuf::join
PathJoin(dir, path) == dir \o "/" \o path

\* (mutant) the file is created before the current file is moved
NotDirOwnerEdits_create_first(problem) ==
    <<[edit |-> "CreateFile", source_root |-> SourceRootOfFile,
       path |-> PathJoin(problem.move_to, problem.candidate)],
      [edit |-> "MoveFile", src |-> PositionFile,
       dst_source_root |-> SourceRootOfFile,
       dst_path |-> problem.move_to]>>

\* vec![move_file, create_file]   (imp.rs 304-316)
NotDirOwnerEdits(problem) ==
    <<[edit |-> "MoveFile", src |-> PositionFile,
       dst_source_root |-> SourceRootOfFile,
       dst_path |-> problem.move_to],
      [edit |-> "CreateFile", source_root |-> SourceRootOfFile,
       path |-> PathJoin(problem.move_to, problem.candidate)]>>

\* The diagnostic of one module problem (imp.rs 284-326).
ProblemDiagnostic(problem) ==
    IF problem.kind = "UnresolvedModule"
    THEN [range |-> problem.name_node, message |-> "unresolved module", severity |-> "Error",
          fix |-> [some |-> TRUE,
                   change |-> [label |-> "create module",
                               source_file_edits |-> <<>>,
                               file_system_edits |->
                                   <<[edit |-> "CreateFile", source_root |-> SourceRootOfFile,
                                      path |-> problem.candidate]>>,
                               cursor_position |-> [some |-> FALSE]]]]
    ELSE [range |-> problem.name_node, message |-> "can't declare module at this location",
          severity |-> "Error",
          fix |-> [some |-> TRUE,
                   change |-> [label |-> "move file and create module",
                               source_file_edits |-> <<>>,
                               file_system_edits |-> NotDirOwnerEdits(problem),
                               cursor_position |-> [some |-> FALSE]]]]

\* The diagnostics of ra_editor, with the fixes as source changes
\* (imp.rs 272-280).
EditorPart(i) ==
    [k \in 1..Len(i.editor) |->
        [range |-> i.editor[k].range,
         message |-> i.editor[k].msg,
         severity |-> i.editor[k].severity,
         fix |-> IF i.editor[k].fix.some
                 THEN [some |-> TRUE,
                       change |-> from_local_edit(PositionFile, i.editor[k].fix.edit)]
                 ELSE [some |-> FALSE]]]

\* (mutant) the problems of the module are not reported
diagnostics_editor_only(i) ==
    IF i.module = "Canceled"
    THEN Canceled(<<Call("module_from_file_id", TRUE)>>)
    ELSE Ok(EditorPart(i), <<Call("module_from_file_id", FALSE)>>)

\* RootDatabase::diagnostics
diagnostics(i) ==
    LET res0 == EditorPart(i)
        c1 == <<Call("module_from_file_id", i.module = "Canceled")>>
    IN IF i.module = "Canceled" THEN Canceled(c1)
       ELSE IF i.module = "Some"
       THEN Ok(res0 \o [k \in 1..Len(i.problems) |-> ProblemDiagnostic(i.problems[k])], c1)
       ELSE Ok(res0, c1)

\* The ranges type_of is asked about.
TypeOfInputs ==
    [parent_fn : BOOLEAN, function : Answers3, infer : {"Canceled", "Ok"},
     node_type : BOOLEAN]
TypeText == "u32"                 \* t.to_string()
NoText == [some |-> FALSE, text |-> ""]
Text(t) == [some |-> TRUE, text |-> t]

\* hover::type_of
type_of(i) ==
    IF ~i.parent_fn THEN Ok(NoText, <<>>)
    ELSE LET c1 == <<Call("function_from_source", i.function = "Canceled")>>
         IN IF i.function = "Canceled" THEN Canceled(c1)
            ELSE IF i.function = "None" THEN Ok(NoText, c1)
            ELSE LET c2 == c1 \o <<Call("infer", i.infer = "Canceled")>>
                 IN IF i.infer = "Canceled" THEN Canceled(c2)
                    ELSE Ok(IF i.node_type THEN Text(TypeText) ELSE NoText, c2)

\* The positions hover is asked about; description and docs are what
\* NavigationTarget::description and NavigationTarget::docs find for a target.
HoverInputs ==
    [resolve : ResolveInputs, expr : BOOLEAN, type : TypeOfInputs,
     description : BOOLEAN, docs : BOOLEAN]
DescriptionText == "fn foo"
DocsText == "docs"
Fence == "~~~"                    \* the code fence, three grave accents in hover.rs

\* fn doc_text_for (hover.rs 56-66): it never fails
doc_text_for(description, docs) ==
    IF description /\ docs
    THEN Text(Fence \o "rust\n" \o DescriptionText \o "\n" \o Fence \o "\n\n" \o DocsText)
    ELSE IF description THEN Text(Fence \o "rust\n" \o DescriptionText \o "\n" \o Fence)
    ELSE IF docs THEN Text(DocsText)
    ELSE NoText

\* res.join("\n\n---\n")
RECURSIVE Join(_)
Join(texts) ==
    IF Len(texts) = 1 THEN Head(texts)
    ELSE Head(texts) \o "\n\n---\n" \o Join(Tail(texts))

NoInfo == [some |-> FALSE, range |-> EmptyRange, info |-> ""]

\* hover.rs 33-37
RangeInfo(range, texts, calls) ==
    IF texts = <<>> THEN Ok(NoInfo, calls)
    ELSE Ok([some |-> TRUE, range |-> range, info |-> Join(texts)], calls)

\* hover::hover
hover(i) ==
    LET rr == approximately_resolve_symbol(i.resolve)
        c1 == rr.calls \o <<Call("approximately_resolve_symbol", rr.result = "Canceled")>>
    IN IF rr.result = "Canceled" THEN Canceled(c1)
       ELSE IF rr.value.some
       THEN LET doc == doc_text_for(i.description, i.docs)
                n == Len(rr.value.resolves_to)
            IN RangeInfo(rr.value.reference_range,
                         IF doc.some THEN [k \in 1..n |-> doc.text] ELSE <<>>,
                         c1 \o [k \in 1..n |-> Call("doc_text_for", FALSE)])
       ELSE IF ~i.expr THEN Ok(NoInfo, c1)
       ELSE LET t == type_of(i.type)
                c2 == c1 \o t.calls \o <<Call("type_of", t.result = "Canceled")>>
            IN IF t.result = "Canceled" THEN Canceled(c2)
               ELSE RangeInfo(ExprRange, IF t.value.some THEN <<t.value.text>> ELSE <<>>, c2)

\* No call has been made yet.
NotAsked == res.op = "none"

\* One call of the Resolution Engine: the operation, its input, its result.
Resolved(op, in, out) ==
    /\ res' = [op |-> op, in |-> in, out |-> out]
    /\ UNCHANGED <<db, revision, pending_revision, change, host, snaps>>

ApproximatelyResolveSymbol ==
    /\ NotAsked
    /\ \E i \in ResolveInputsOver(WorldAnswers \cup IndexAnswers) :
          Resolved("approximately_resolve_symbol", i, approximately_resolve_symbol(i))
FindAllRefs ==
    /\ NotAsked
    /\ \E i \in FindRefsInputs : Resolved("find_all_refs", i, find_all_refs(i))
Rename ==
    /\ NotAsked
    /\ \E i \in FindRefsInputs, n \in NewNames :
          Resolved("rename", [refs |-> i, new_name |-> n], rename(i, n))
ResolveCallable ==
    /\ NotAsked
    /\ \E i \in CallableInputs : Resolved("resolve_callable", i, resolve_callable(i))
Diagnostics ==
    /\ NotAsked
    /\ \E i \in DiagnosticsInputs : Resolved("diagnostics", i, diagnostics(i))
TypeOf ==
    /\ NotAsked
    /\ \E i \in TypeOfInputs : Resolved("type_of", i, type_of(i))
Hover ==
    /\ NotAsked
    /\ \E i \in HoverInputs : Resolved("hover", i, hover(i))
ParentModule ==
    /\ NotAsked
    /\ \E i \in ParentModuleInputs : Resolved("parent_module", i, parent_module(i))
CrateFor ==
    /\ NotAsked
    /\ \E i \in CrateForInputs : Resolved("crate_for", i, crate_for(i))
SymbolSearch ==
    /\ NotAsked
    /\ \E i \in SearchInputs : Resolved("symbol_search", i, symbol_search(i))

----------------------------------------------------------------------------
(* Specifications *)

NoRes == [op |-> "none"]

Init ==
    /\ db = EmptyDb
    /\ revision = 0
    /\ pending_revision = 0
    /\ change = EmptyChange
    /\ host = IdleHost
    /\ snaps = [s \in SnapIds |-> NoSnap]
    /\ res = NoRes

\* One writer and its snapshots.
Next ==
    \/ ApplyBegin
    \/ SetSignal
    \/ SetCommit
    \/ \E s \in SnapIds : TakeSnapshot(s)
    \/ \E s \in SnapIds : StartRead(s)
    \/ \E s \in SnapIds : ReadCall(s)
    \/ \E s \in SnapIds : ReadReturn(s)
    \/ \E s \in SnapIds : DropSnapshot(s)

Spec == Init /\ [][Next]_vars

\* The writer alone: batches built and applied one after the other.
NextStore ==
    \/ AddRoot
    \/ AddFile
    \/ ChangeFile
    \/ RemoveFile
    \/ AddLibrary
    \/ SetCrateGraph
    \/ ApplyChange

SpecStore == Init /\ [][NextStore]_vars

\* One call of one operation of the Resolution Engine.
NextResolve ==
    \/ ApproximatelyResolveSymbol
    \/ FindAllRefs
    \/ Rename
    \/ ResolveCallable
    \/ Diagnostics
    \/ TypeOf
    \/ Hover
    \/ ParentModule
    \/ CrateFor
    \/ SymbolSearch

SpecResolve == Init /\ [][NextResolve]_vars

----------------------------------------------------------------------------
(* Claims: snapshots and cancellation (checked under Spec) *)

\* C1. Snapshot isolation: a read that returns Ok has read only the store as
\* it was when its snapshot was taken, also when a batch began during the read
\* or was applied after it; the other reads fail with Canceled.
C1_SnapshotIsolation ==
    \A s \in SnapIds :
        snaps[s].status = "ok" => snaps[s].seen = {snaps[s].taken}

\* A read returned Ok although a batch began during it, and the batch has
\* since changed the store.
C1_Witness ==
    \E s \in SnapIds :
        /\ snaps[s].status = "ok"
        /\ snaps[s].overlapped
        /\ db # snaps[s].taken

C5_FlagBeforeMutation ==
    /\ [](\A s \in host.snaps0 :
            (snaps[s].alive /\ host.pc # "idle" /\ Len(host.todo) < host.nwrites)
                => check_canceled = "Canceled")
    /\ [][db' # db => pending_revision > revision]_vars

\* The flag is up, a snapshot is still reading, and nothing of the batch has
\* been written yet.
C5_Witness ==
    /\ host.pc = "lock"
    /\ Len(host.todo) = host.nwrites
    /\ check_canceled = "Canceled"
    /\ \E s \in host.snaps0 : Reading(s)

\* C6 as stated: a read during which a batch began ends with Canceled.
C6_Original ==
    \A s \in SnapIds :
        (snaps[s].status \in {"ok", "canceled"} /\ snaps[s].overlapped)
            => snaps[s].status = "canceled"

\* C6, amended: a read ends with Canceled only in an operation that makes a
\* cancelable collaborator call (never in assists or crate_root) and only
\* after a write has begun; a read during which a batch began and that still
\* returns Ok has read the old state only.
C6_CanceledOrOldState ==
    \A s \in SnapIds :
        /\ snaps[s].status = "canceled" =>
              /\ snaps[s].op \notin {"assists", "crate_root"}
              /\ pending_revision > 0
        /\ (snaps[s].status = "ok" /\ snaps[s].overlapped) =>
              /\ snaps[s].seen = {snaps[s].taken}
              /\ snaps[s].taken # db => ~snaps[s].alive

\* A read was canceled by a batch that began during it.
C6_Witness ==
    \E s \in SnapIds : snaps[s].status = "canceled" /\ snaps[s].overlapped

----------------------------------------------------------------------------
(* Claims: the revision (checked under SpecStore) *)

\* The step is a call of apply_change that returns.
Applied == host'.nbatches = host.nbatches + 1 /\ host'.pc = "idle"

\* The set / set_constant calls in the text of apply_change that a batch
\* reaches, counted from the shape of the batch.
RootChangeSetCalls(rc) == 3 * Len(rc.added) + Len(rc.removed) + 1

RECURSIVE RootsSetCalls(_, _)
RootsSetCalls(c, S) ==
    IF S = {} THEN 0
    ELSE LET r == CHOOSE x \in S : TRUE
         IN RootChangeSetCalls(c.roots_changed[r]) + RootsSetCalls(c, S \ {r})

RECURSIVE LibrariesSetCalls(_)
LibrariesSetCalls(libs) ==
    IF libs = <<>> THEN 0
    ELSE 2 + RootChangeSetCalls(Head(libs).root_change) + LibrariesSetCalls(Tail(libs))

SetCalls(c) ==
    (IF c.new_roots = <<>> THEN 0 ELSE Len(c.new_roots) + 1)
    + RootsSetCalls(c, ChangedRoots(c))
    + Len(c.files_changed)
    + (IF c.libraries_added = <<>> THEN 0 ELSE LibrariesSetCalls(c.libraries_added) + 1)
    + (IF c.crate_graph = "none" THEN 0 ELSE 1)

----------------------------------------------------------------------------
(* Claims: removed files and libraries (checked under SpecStore) *)

\* The (root, file, path) removals recorded in the batch c.
Removals(c) ==
    {<<r, x.file_id, x.path>> : r \in RootIds, x \in [file_id : FileIds, path : Paths]}
    \cap UNION {{<<r, x.file_id, x.path>> : x \in SeqToSet(c.roots_changed[r].removed)} :
                   r \in RootIds}

\* The files the batch c adds under the root r / through a library.
AddedUnder(c, r) == {x.file_id : x \in SeqToSet(c.roots_changed[r].added)}
LibraryAdds(c) ==
    UNION {{[root |-> l.root_id, file_id |-> x.file_id, path |-> x.path] :
                x \in SeqToSet(l.root_change.added)} : l \in SeqToSet(c.libraries_added)}
ChangedFiles(c) == {x[1] : x \in SeqToSet(c.files_changed)}

\* C8 as stated, its first two parts: after applying any batch that removes
\* file F, recorded with path P, from root R, the text of F is empty and P is
\* not a key of the file set of R.
C8_Original ==
    [][Applied =>
        \A rm \in Removals(change) :
            /\ db'.file_text[rm[2]] = DefaultText
            /\ db'.source_root[rm[1]][rm[3]] = NoFile]_vars

\* The batch writes the text of f after the removals of root r: it replaces
\* the text, or adds f under another root or in a library.
RewritesText(c, r, f) ==
    \/ f \in ChangedFiles(c)
    \/ \E r2 \in RootIds \ {r} : f \in AddedUnder(c, r2)
    \/ \E a \in LibraryAdds(c) : a.file_id = f

\* The batch resets the file set of r after the removals (a library on r).
ResetsRoot(c, r) == \E l \in SeqToSet(c.libraries_added) : l.root_id = r

\* C8, amended: after applying a batch that removes file F, recorded with path
\* P, from root R: the text of F is empty unless the same batch also writes it
\* after the removal (a change_file for F, an add of F under another root or
\* in a library); P is not a key of the file set of R unless the batch adds a
\* library on R; and the removal leaves the stored path and owning root of F
\* as they were (a batch that does not add F does not change them).
C8_Tombstone ==
    [][Applied =>
        \A rm \in Removals(change) :
            LET r == rm[1]  f == rm[2]  p == rm[3]
            IN /\ ~RewritesText(change, r, f) => db'.file_text[f] = DefaultText
               /\ ~ResetsRoot(change, r) => db'.source_root[r][p] = NoFile
               /\ (f \notin AddedUnder(change, r) /\ ~RewritesText(change, r, f)) =>
                     /\ db'.file_relative_path[f] = db.file_relative_path[f]
                     /\ db'.file_source_root[f] = db.file_source_root[f]]_vars

\* A tombstone: a file that has been added and removed keeps its path and its
\* root, has the empty text, and is not in the file set of its root.
C8_Witness ==
    \E f \in FileIds :
        /\ db.file_relative_path[f] \in Paths
        /\ db.file_source_root[f] \in RootIds
        /\ db.file_text[f] = DefaultText
        /\ db.source_root[db.file_source_root[f]][db.file_relative_path[f]] = NoFile

\* C9. A library root is immutable once added: no later batch changes the
\* text of a file of the library, its file set or its symbol index.
C9_LibraryImmutable ==
    [][\A l \in SeqToSet(db.library_roots) :
          /\ db'.source_root[l] = db.source_root[l]
          /\ db'.library_symbols[l] = db.library_symbols[l]
          /\ \A p \in Paths :
                db.source_root[l][p] # NoFile =>
                    db'.file_text[db.source_root[l][p]] = db.file_text[db.source_root[l][p]]]_vars

----------------------------------------------------------------------------
(* Claims: the Resolution Engine (checked under SpecResolve) *)

ResolutionOps ==
    {"approximately_resolve_symbol", "find_all_refs", "rename", "resolve_callable",
     "diagnostics", "type_of", "hover", "parent_module", "crate_for", "symbol_search"}

\* C7. In every operation of the Resolution Engine, when a collaborator call
\* made during the operation answers Canceled, the operation returns Canceled
\* (never Ok with None, an empty vector or a partial result), and every frame
\* between the call and the operation passes the failure on: no call is
\* answered after it.
C7_CanceledPropagates ==
    res.op \in ResolutionOps =>
        \A k \in 1..Len(res.out.calls) :
            res.out.calls[k].answer = "Canceled" =>
                /\ res.out.result = "Canceled"
                /\ \A l \in k..Len(res.out.calls) : res.out.calls[l].answer = "Canceled"

\* hover fails because type inference, three frames down, was canceled.
C7_Witness ==
    /\ res.op = "hover"
    /\ res.out.result = "Canceled"
    /\ \E k \in 1..Len(res.out.calls) :
          res.out.calls[k] = Call("infer", TRUE)

\* The cursor is on a name reference that resolves in the scope of the
\* enclosing function.
ResolvesLocally ==
    /\ res.op = "approximately_resolve_symbol"
    /\ res.in.name_ref
    /\ res.in.fn_descr = "Some"
    /\ res.in.local

\* C10. Resolution precedence: when the cursor is on a name reference that
\* resolves in the lexical scope of the enclosing function,
\* approximately_resolve_symbol returns exactly one target, the local binding,
\* and no result of the symbol index, whatever the index holds; the index is
\* not consulted.
C10_LocalFirst ==
    ResolvesLocally =>
        /\ res.out.result = "Ok"
        /\ res.out.value.some
        /\ res.out.value.resolves_to = <<LocalTarget>>
        /\ \A k \in 1..Len(res.out.calls) :
              res.out.calls[k].call \notin {"index_resolve", "world_symbols"}

\* The reference resolves locally and the index has symbols of its name.
C10_Witness ==
    /\ ResolvesLocally
    /\ ~res.in.world.canceled
    /\ Len(res.in.world.symbols) = MaxSymbols
    /\ Len(res.out.value.resolves_to) = 1

\* The cursor is on a name reference that does not resolve locally, and no
\* collaborator was canceled.
ResolvesByIndex ==
    /\ res.op = "approximately_resolve_symbol"
    /\ res.in.name_ref
    /\ ~(res.in.fn_descr = "Some" /\ res.in.local)
    /\ res.in.fn_descr # "Canceled"
    /\ ~res.in.world.canceled

\* The places in the index of the symbols whose name is the reference's text.
ExactPlaces(symbols) == {k \in 1..Len(symbols) : symbols[k].name = NameRefText}

\* C11. In approximately_resolve_symbol, when the cursor is on a name
\* reference that does not resolve locally, the targets are exactly the
\* symbols of the index whose name is the reference's text (the first four of
\* them when there are more), one target for each and in the order of the
\* index, never more than four; and when the cursor is on neither a name
\* reference nor the name of a `mod x;` declaration that resolves to a
\* module, the result is None.  (A canceled collaborator ends the operation
\* with Canceled, as C7 says.)
C11_IndexLookup ==
    /\ ResolvesByIndex =>
          LET symbols == res.in.world.symbols
              targets == res.out.value.resolves_to
              places == ExactPlaces(symbols)
              \* the place in the index of the n-th match
              place(n) == CHOOSE k \in places :
                              Cardinality({j \in places : j < k}) = n - 1
          IN /\ res.out.result = "Ok"
             /\ res.out.value.some
             /\ Len(targets) = Min(4, Cardinality(places))
             /\ \A n \in 1..Len(targets) :
                   /\ targets[n].name = NameRefText
                   /\ targets[n].file_id = symbols[place(n)].file_id
                   /\ targets[n].kind = symbols[place(n)].kind
                   /\ targets[n].range = symbols[place(n)].range
    /\ (/\ res.op = "approximately_resolve_symbol"
        /\ ~res.in.name_ref
        /\ ~(res.in.name /\ res.in.module = "semi" /\ res.in.child_module = "Some")
        /\ res.out.result = "Ok") =>
          ~res.out.value.some

\* The index holds more than four symbols of the reference's name, and one
\* whose name differs in case; four targets are returned.
C11_Witness ==
    /\ ResolvesByIndex
    /\ Cardinality(ExactPlaces(res.in.world.symbols)) > 4
    /\ Len(res.in.world.symbols) > Cardinality(ExactPlaces(res.in.world.symbols))
    /\ Len(res.out.value.resolves_to) = 4

\* The cursor is on a binding of a function, or on a name reference that
\* resolves to one in the scope of its function; the binding has a name.
OnBindingOrReference ==
    /\ res.op = "find_all_refs"
    /\ res.in.fn_descr = "Some"
    /\ res.in.has_name
    /\ \/ res.in.bind_pat
       \/ res.in.name_ref /\ res.in.local /\ res.in.decl_bind_pat

\* C12. Find-all-refs soundness: for a binding with N references (the ranges
\* the scopes of the function give for it), find_all_refs with the cursor on
\* the binding or on one of its references returns exactly N + 1 ranges: the
\* range of the declaration's name, then the N reference ranges, each with
\* the file id of the query.  When the cursor is on a name reference that
\* does not resolve locally the result is empty and the symbol index is not
\* consulted.
C12_FindAllRefs ==
    /\ OnBindingOrReference =>
          /\ res.out.result = "Ok"
          /\ Len(res.out.value) = Len(res.in.refs) + 1
          /\ res.out.value[1] = <<PositionFile, NameRange>>
          /\ \A k \in 1..Len(res.in.refs) :
                res.out.value[k + 1] = <<PositionFile, res.in.refs[k]>>
    /\ (/\ res.op = "find_all_refs"
        /\ ~res.in.bind_pat
        /\ res.in.name_ref
        /\ res.in.fn_descr # "Canceled"
        /\ ~(res.in.fn_descr = "Some" /\ res.in.local)) =>
          /\ res.out.result = "Ok"
          /\ res.out.value = <<>>
    /\ res.op = "find_all_refs" =>
          \A k \in 1..Len(res.out.calls) :
              res.out.calls[k].call \notin {"index_resolve", "world_symbols"}

\* The cursor is on a reference of a binding that has the most references.
C12_Witness ==
    /\ OnBindingOrReference
    /\ ~res.in.bind_pat
    /\ Len(res.in.refs) = MaxRefs
    /\ Len(res.out.value) = MaxRefs + 1

\* C13 as stated. Rename gives, for every range that find_all_refs returns, one
\* replacement of that range by the new name, the replacements grouped into
\* one edit group for each file touched (so one group when there is a range,
\* all ranges being in one file), and no edit at all, as a success, when
\* find_all_refs returns nothing.
C13_RenameGroupsByFile ==
    res.op = "rename" =>
        LET found == find_all_refs(res.in.refs)
            groups == res.out.value
        IN found.result = "Ok" =>
             /\ res.out.result = "Ok"
             /\ \A k \in 1..Len(found.value) :
                   \E g \in 1..Len(groups) :
                       /\ groups[g].file_id = found.value[k][1]
                       /\ \E a \in 1..Len(groups[g].edit) :
                             groups[g].edit[a] = [delete |-> found.value[k][2],
                                                  insert |-> res.in.new_name]
             /\ \A g, h \in 1..Len(groups) :
                   groups[g].file_id = groups[h].file_id => g = h
             /\ found.value = <<>> => groups = <<>>

\* C13, amended: rename gives one edit group for each range that
\* find_all_refs returns, in the same order: the file id of the range and a
\* single replacement of the range by the new name.  So a file has as many
\* groups as it has ranges, and when find_all_refs returns nothing rename
\* returns no edit, as a success.
C13_RenamePerRange ==
    res.op = "rename" =>
        LET found == find_all_refs(res.in.refs)
            groups == res.out.value
        IN found.result = "Ok" =>
             /\ res.out.result = "Ok"
             /\ Len(groups) = Len(found.value)
             /\ \A k \in 1..Len(groups) :
                   groups[k] = [file_id |-> found.value[k][1],
                                edit |-> <<[delete |-> found.value[k][2],
                                            insert |-> res.in.new_name]>>]

\* A binding and its references are renamed: several groups for one file.
C13_Witness ==
    /\ res.op = "rename"
    /\ res.out.result = "Ok"
    /\ Len(res.out.value) = MaxRefs + 1
    /\ res.out.value[1].file_id = res.out.value[2].file_id

\* resolve_callable reports a signature for a call with an argument list.
ReportsCallable ==
    /\ res.op = "resolve_callable"
    /\ res.out.result = "Ok"
    /\ res.out.value.some
    /\ res.in.arg_list

\* C14. The current-parameter index of resolve_callable: none when the
\* function has no declared parameter once the receiver of a method call is
\* discounted; 0 when it has exactly one parameter and the call is not a
\* method call; otherwise the number of commas between the start of the
\* argument list and the cursor, plus one if and only if the call expression
\* is a method call.
C14_ParameterRules ==
    ReportsCallable =>
        LET method == res.out.value.calling_node.kind = "method"
            declared == res.in.num_params - (IF method THEN 1 ELSE 0)
            reported == res.out.value.current_parameter
        IN IF declared <= 0 THEN ~reported.some
           ELSE IF res.in.num_params = 1 /\ ~method THEN reported = Parameter(0)
           ELSE reported = Parameter(res.in.commas + (IF method THEN 1 ELSE 0))

\* The call `f(a, b, c<|>)` of a function with three parameters.
PlainCallThirdArgument ==
    /\ ReportsCallable
    /\ res.out.value.calling_node.kind = "call"
    /\ ~res.in.has_self
    /\ res.in.num_params = 3
    /\ res.in.commas = 2

\* The method call `obj.f(<|>)` of a method whose signature lists the
\* receiver and one declared parameter.
MethodCallFirstArgument ==
    /\ ReportsCallable
    /\ res.out.value.calling_node.kind = "method"
    /\ res.in.has_self
    /\ res.in.num_params = 2
    /\ res.in.commas = 0

\* C15 as stated: for `f(a, b, c<|>)`, f having three parameters,
\* resolve_callable reports the index 2; for the method call `obj.f(<|>)`,
\* f having one declared parameter besides the receiver, it reports 0.
C15_Examples ==
    /\ PlainCallThirdArgument => res.out.value.current_parameter = Parameter(2)
    /\ MethodCallFirstArgument => res.out.value.current_parameter = Parameter(0)

\* C15, amended: for `f(a, b, c<|>)`, f having three parameters,
\* resolve_callable reports the index 2; for the method call `obj.f(<|>)`,
\* the signature of f listing the receiver and one declared parameter, it
\* reports 1, the receiver being at index 0.
C15_ExamplesReceiverCounted ==
    /\ PlainCallThirdArgument => res.out.value.current_parameter = Parameter(2)
    /\ MethodCallFirstArgument => res.out.value.current_parameter = Parameter(1)

\* The method call of the example, with its answer.
C15_Witness ==
    /\ MethodCallFirstArgument
    /\ res.out.value.current_parameter.some
    /\ res.out.value.num_params = 2

\* The module of the file is known, so its problems are reported.
ReportsProblems ==
    /\ res.op = "diagnostics"
    /\ res.out.result = "Ok"
    /\ res.in.module = "Some"

\* C16. Each problem "unresolved module, candidate path P" of the file gives
\* exactly one diagnostic (the diagnostics are those of the editor followed
\* by one for each problem, in order): its severity is Error, its range is
\* the range of the module's name node, and its fix holds nothing but one
\* filesystem edit, the creation of a file at P in the source root of the
\* file: no text edit, no cursor position.
C16_UnresolvedModule ==
    ReportsProblems =>
        /\ Len(res.out.value) = Len(res.in.editor) + Len(res.in.problems)
        /\ \A k \in 1..Len(res.in.problems) :
              LET problem == res.in.problems[k]
                  diag == res.out.value[Len(res.in.editor) + k]
              IN problem.kind = "UnresolvedModule" =>
                   /\ diag.severity = "Error"
                   /\ diag.range = problem.name_node
                   /\ diag.fix.some
                   /\ diag.fix.change.source_file_edits = <<>>
                   /\ ~diag.fix.change.cursor_position.some
                   /\ diag.fix.change.file_system_edits =
                          <<[edit |-> "CreateFile", source_root |-> SourceRootOfFile,
                             path |-> problem.candidate]>>

\* A file with a diagnostic of the editor and two unresolved modules.
C16_Witness ==
    /\ ReportsProblems
    /\ Len(res.in.editor) = 1
    /\ Len(res.in.problems) = 2
    /\ \A k \in 1..2 : res.in.problems[k].kind = "UnresolvedModule"
    /\ res.in.problems[1].name_node # res.in.problems[2].name_node
    /\ Len(res.out.value) = 3

\* C17 as stated: for a problem "not a directory owner, move to M, candidate
\* C", the fix moves the current file to M joined with C in the same source
\* root, and the creation of that path comes before the move in the list of
\* filesystem edits.
C17_CreateThenMove ==
    ReportsProblems =>
        \A k \in 1..Len(res.in.problems) :
            LET problem == res.in.problems[k]
                edits == res.out.value[Len(res.in.editor) + k].fix.change.file_system_edits
                path == PathJoin(problem.move_to, problem.candidate)
            IN problem.kind = "NotDirOwner" =>
                 \E c, mv \in 1..Len(edits) :
                     /\ c < mv
                     /\ edits[c].edit = "CreateFile" /\ edits[c].path = path
                     /\ edits[mv].edit = "MoveFile" /\ edits[mv].dst_path = path
                     /\ edits[mv].dst_source_root = SourceRootOfFile

\* C17, amended: for a problem "not a directory owner, move to M, candidate
\* C", the fix holds two filesystem edits in this order: the move of the
\* current file to the path M in its own source root, then the creation of a
\* file at M joined with C in that root; the diagnostic is an error at the
\* module's name node, with no text edit and no cursor position.
C17_MoveThenCreate ==
    ReportsProblems =>
        \A k \in 1..Len(res.in.problems) :
            LET problem == res.in.problems[k]
                diag == res.out.value[Len(res.in.editor) + k]
            IN problem.kind = "NotDirOwner" =>
                 /\ diag.severity = "Error"
                 /\ diag.range = problem.name_node
                 /\ diag.fix.change.source_file_edits = <<>>
                 /\ ~diag.fix.change.cursor_position.some
                 /\ diag.fix.change.file_system_edits =
                        <<[edit |-> "MoveFile", src |-> PositionFile,
                           dst_source_root |-> SourceRootOfFile,
                           dst_path |-> problem.move_to],
                          [edit |-> "CreateFile", source_root |-> SourceRootOfFile,
                           path |-> problem.move_to \o "/" \o problem.candidate]>>

\* A file whose module is not a directory owner.
C17_Witness ==
    /\ ReportsProblems
    /\ \E k \in 1..Len(res.in.problems) :
          /\ res.in.problems[k].kind = "NotDirOwner"
          /\ Len(res.out.value[Len(res.in.editor) + k].fix.change.file_system_edits) = 2

\* What approximate resolution finds at the position hover is asked about.
HoverResolution == approximately_resolve_symbol(res.in.resolve)
HoverDefinitions ==
    IF HoverResolution.value.some THEN HoverResolution.value.resolves_to ELSE <<>>

\* Type inference has a type for the expression under the cursor.
HoverTypeKnown ==
    /\ res.in.expr
    /\ type_of(res.in.type).result = "Ok"
    /\ type_of(res.in.type).value.some

\* C18. Hover falls back to the inferred type of the covering expression
\* exactly when approximate resolution yields no definitions: with no
\* definition at the cursor (a name reference that matches nothing locally or
\* in the index included) and a type inferred for the expression under the
\* cursor, hover returns that type; with at least one definition the type is
\* not shown.
C18_TypeFallback ==
    (res.op = "hover" /\ res.out.result = "Ok" /\ HoverResolution.result = "Ok") =>
        /\ (HoverDefinitions = <<>> /\ HoverTypeKnown) =>
              /\ res.out.value.some
              /\ res.out.value.info = type_of(res.in.type).value.text
        /\ HoverDefinitions # <<>> =>
              ~(res.out.value.some /\ res.out.value.info = TypeText)

\* The parts of a batch, each one a change of the Input Store.
NewRootParts(c) ==
    [k \in 1..Len(c.new_roots) |->
        [part |-> "new_root", root |-> c.new_roots[k][1], is_local |-> c.new_roots[k][2]]]
AddedParts(root_id, added) ==
    [k \in 1..Len(added) |-> [part |-> "added", root |-> root_id, file |-> added[k]]]
RemovedParts(root_id, removed) ==
    [k \in 1..Len(removed) |-> [part |-> "removed", root |-> root_id, file |-> removed[k]]]
TextParts(c) ==
    [k \in 1..Len(c.files_changed) |->
        [part |-> "text", file_id |-> c.files_changed[k][1], text |-> c.files_changed[k][2]]]
RECURSIVE LibraryParts(_)
LibraryParts(libraries_added) ==
    IF libraries_added = <<>> THEN <<>>
    ELSE LET library == Head(libraries_added)
         IN <<[part |-> "library", root |-> library.root_id,
               symbol_index |-> library.symbol_index]>>
            \o AddedParts(library.root_id, library.root_change.added)
            \o LibraryParts(Tail(libraries_added))
GraphParts(c) ==
    IF c.crate_graph = "none" THEN <<>>
    ELSE <<[part |-> "crate_graph", graph |-> c.crate_graph]>>

\* The store after one part has been applied to it.
ApplyPart(store, p) ==
    CASE p.part = "new_root" ->
            [store EXCEPT !.source_root[p.root] = EmptyFiles,
                          !.local_roots = IF p.is_local THEN Append(@, p.root) ELSE @]
      [] p.part = "added" ->
            [store EXCEPT !.file_text[p.file.file_id] = p.file.text,
                          !.file_relative_path[p.file.file_id] = p.file.path,
                          !.file_source_root[p.file.file_id] = p.root,
                          !.source_root[p.root][p.file.path] = p.file.file_id]
      [] p.part = "removed" ->
            [store EXCEPT !.file_text[p.file.file_id] = DefaultText,
                          !.source_root[p.root][p.file.path] = NoFile]
      [] p.part = "text" -> [store EXCEPT !.file_text[p.file_id] = p.text]
      [] p.part = "library" ->
            [store EXCEPT !.library_roots = Append(@, p.root),
                          !.source_root[p.root] = EmptyFiles,
                          !.library_symbols[p.root] = p.symbol_index,
                          !.constant_symbols = @ \cup {p.root}]
      [] p.part = "crate_graph" -> [store EXCEPT !.crate_graph = p.graph]

\* The parts applied one after the other.
RECURSIVE ApplyParts(_, _)
ApplyParts(store, parts) ==
    IF parts = <<>> THEN store
    ELSE ApplyParts(ApplyPart(store, Head(parts)), Tail(parts))

\* The added files of every root, then the removed files of every root.
RECURSIVE AllAdded(_, _)
AllAdded(c, order) ==
    IF order = <<>> THEN <<>>
    ELSE AddedParts(Head(order), c.roots_changed[Head(order)].added)
         \o AllAdded(c, Tail(order))
RECURSIVE AllRemoved(_, _)
AllRemoved(c, order) ==
    IF order = <<>> THEN <<>>
    ELSE RemovedParts(Head(order), c.roots_changed[Head(order)].removed)
         \o AllRemoved(c, Tail(order))
PartsByKind(c, order) ==
    NewRootParts(c) \o AllAdded(c, order) \o AllRemoved(c, order)
    \o TextParts(c) \o LibraryParts(c.libraries_added) \o GraphParts(c)

\* Root after root: the added files of a root, then its removed files.
RECURSIVE RootAfterRoot(_, _)
RootAfterRoot(c, order) ==
    IF order = <<>> THEN <<>>
    ELSE AddedParts(Head(order), c.roots_changed[Head(order)].added)
         \o RemovedParts(Head(order), c.roots_changed[Head(order)].removed)
         \o RootAfterRoot(c, Tail(order))
PartsByRoot(c, order) ==
    NewRootParts(c) \o RootAfterRoot(c, order)
    \o TextParts(c) \o LibraryParts(c.libraries_added) \o GraphParts(c)

\* The last text the batch gives to file f by a standalone replacement.
LastReplacement(c, f) ==
    LET ks == {k \in 1..Len(c.files_changed) : c.files_changed[k][1] = f}
    IN c.files_changed[CHOOSE k \in ks : \A j \in ks : j <= k][2]

\* C19 as stated: the store after apply_change is the store after the parts of
\* the batch applied one after the other in the order (1) new roots, (2) the
\* added files of the roots, (3) the removed files of the roots, (4) the text
\* replacements, (5) the libraries (root registered, symbol index installed,
\* files added), (6) the crate graph.
C19_FixedOrder ==
    [][Applied =>
        \E order \in Perms(ChangedRoots(change)) :
            db' = ApplyParts(db, PartsByKind(change, order))]_vars

\* C19, amended: the store after apply_change is the store after the parts of
\* the batch applied one after the other in the order (1) new roots, (2) the
\* changed roots one after the other, in an order the batch does not fix, for
\* each root its added files and then its removed files, (3) the text
\* replacements, (4) the libraries (root registered, file set reset, symbol
\* index installed, files added), (5) the crate graph; a text replacement for
\* a file added under a root in the same batch overrides the added text.
C19_RootAfterRoot ==
    [][Applied =>
        /\ \E order \in Perms(ChangedRoots(change)) :
              db' = ApplyParts(db, PartsByRoot(change, order))
        /\ \A f \in ChangedFiles(change) :
              (\A a \in LibraryAdds(change) : a.file_id # f) =>
                  db'.file_text[f] = LastReplacement(change, f)]_vars

\* One batch has added a file and replaced its text: the store holds the
\* replacement.
C19_Witness ==
    /\ host.nbatches = 1
    /\ host.ncalls = 2
    /\ host.pc = "idle"
    /\ \E f \in FileIds :
          /\ db.file_source_root[f] \in RootIds
          /\ db.file_text[f] \in ChangeTexts

\* C20. resolve_callable works on the nearest call or method-call expression
\* around the cursor: with a method call inside the argument list of a plain
\* call, or the reverse, the signature reported is that of the callee of the
\* innermost of the two expressions.
C20_InnermostCall ==
    (res.op = "resolve_callable" /\ res.out.result = "Ok" /\ res.out.value.some) =>
        /\ res.out.value.calling_node.depth = 1
        /\ res.out.value.calling_node.kind = res.in.enclosing[1]

\* The targets of a call of approximately_resolve_symbol or symbol_search.
ReturnedTargets ==
    IF res.op = "symbol_search" THEN res.out.value
    ELSE IF res.out.value.some THEN res.out.value.resolves_to ELSE <<>>

\* The targets were made from the symbols of the index.
TargetsFromIndex ==
    /\ res.op = "symbol_search" \/ ResolvesByIndex
    /\ res.out.result = "Ok"

\* The targets were found in the scope of the enclosing function.
TargetsFromScope ==
    /\ ResolvesLocally
    /\ res.out.result = "Ok"

\* C21 as stated: in every NavigationTarget returned by
\* approximately_resolve_symbol or symbol_search, the node pointer is absent
\* when the target comes from the symbol index and present when it comes from
\* the resolution in the local scope.
C21_PtrFromScope ==
    /\ TargetsFromIndex =>
          \A k \in 1..Len(ReturnedTargets) : ReturnedTargets[k].ptr = "None"
    /\ TargetsFromScope =>
          \A k \in 1..Len(ReturnedTargets) : ReturnedTargets[k].ptr = "Some"

\* C21, amended: in every NavigationTarget returned by
\* approximately_resolve_symbol or symbol_search, the node pointer is present
\* when the target comes from a symbol of the index, and absent when it comes
\* from the resolution in the local scope or stands for the module of a
\* `mod x;` declaration.
C21_PtrFromIndex ==
    /\ TargetsFromIndex =>
          \A k \in 1..Len(ReturnedTargets) : ReturnedTargets[k].ptr = "Some"
    /\ TargetsFromScope =>
          /\ Len(ReturnedTargets) = 1
          /\ ReturnedTargets[1].ptr = "None"
    /\ (res.op = "approximately_resolve_symbol" /\ res.out.result = "Ok"
        /\ ~res.in.name_ref) =>
          \A k \in 1..Len(ReturnedTargets) : ReturnedTargets[k].ptr = "None"

\* A reference resolved through the index, to two symbols.
C21_Witness ==
    /\ TargetsFromIndex
    /\ res.op = "approximately_resolve_symbol"
    /\ Len(ReturnedTargets) = 2
    /\ ReturnedTargets[1].ptr = "Some"

\* The files the batch c removes from the root r, and the paths it adds and
\* removes there.
RemovedFrom(c, r) == {x.file_id : x \in SeqToSet(c.roots_changed[r].removed)}
AddedPaths(c, r) == {x.path : x \in SeqToSet(c.roots_changed[r].added)}
RemovedPaths(c, r) == {x.path : x \in SeqToSet(c.roots_changed[r].removed)}

\* C22 as stated: in one batch the added files of a root are applied before
\* its removed files, whatever the order of the calls of add_file and
\* remove_file: a batch that removes a file at path P and adds another at P in
\* the same root leaves P out of the file set of the root, and a file id both
\* added and removed in one batch ends with the empty text.
C22_AddsBeforeRemoves ==
    [][Applied =>
        /\ \A r \in RootIds : \A p \in AddedPaths(change, r) \cap RemovedPaths(change, r) :
              db'.source_root[r][p] = NoFile
        /\ \A f \in FileIds :
              (/\ \E r \in RootIds : f \in AddedUnder(change, r)
               /\ \E r \in RootIds : f \in RemovedFrom(change, r)) =>
                  db'.file_text[f] = DefaultText]_vars

\* C22, amended: for each root of a batch the added files are applied before
\* the removed files, whatever the order of the calls: a path both added and
\* removed in a root is not in the file set of the root afterwards, unless
\* the batch also adds a library on that root; and a file both added and
\* removed in the same root ends with the empty text, unless the batch also
\* writes its text later (a change_file for it, an add of it under another
\* root or in a library).
C22_AddsBeforeRemovesPerRoot ==
    [][Applied =>
        \A r \in RootIds :
            /\ ~ResetsRoot(change, r) =>
                  \A p \in AddedPaths(change, r) \cap RemovedPaths(change, r) :
                      db'.source_root[r][p] = NoFile
            /\ \A f \in AddedUnder(change, r) \cap RemovedFrom(change, r) :
                  ~RewritesText(change, r, f) => db'.file_text[f] = DefaultText]_vars

\* One batch has added a file at a path of a root and removed another file
\* at that path: the added file has its text, its path and its root, and the
\* path is not in the file set of the root.
C22_Witness ==
    /\ host.nbatches = 1
    /\ host.ncalls = 2
    /\ host.pc = "idle"
    /\ db.library_roots = <<>>
    /\ \E f \in FileIds, r \in RootIds, p \in Paths :
          /\ db.file_text[f] \in AddTexts
          /\ db.file_relative_path[f] = p
          /\ db.file_source_root[f] = r
          /\ db.source_root[r][p] = NoFile

\* The files a batch adds, under a root or through a library: root, file, path.
BatchAdds(c) ==
    UNION {{[root |-> r, file_id |-> x.file_id, path |-> x.path] :
                x \in SeqToSet(c.roots_changed[r].added)} : r \in RootIds}
    \cup LibraryAdds(c)

\* The batch adds every file under the one root and the one path the file has
\* had so far, if it has been added before.
OneRootOnePath(store, c) ==
    /\ \A a \in BatchAdds(c) :
          /\ store.file_source_root[a.file_id] \in {DefaultRoot, a.root}
          /\ store.file_relative_path[a.file_id] \in {DefaultPath, a.path}
    /\ \A a, b \in BatchAdds(c) :
          a.file_id = b.file_id => (a.root = b.root /\ a.path = b.path)

\* Every entry of a file set agrees with the root and the path of its file.
EntriesAgree(store) ==
    \A r \in RootIds, p \in Paths :
        LET f == store.source_root[r][p]
        IN f # NoFile =>
             /\ store.file_source_root[f] = r
             /\ store.file_relative_path[f] = p

\* The file is in the file set of its root, at its path.
InItsRoot(store, f) ==
    /\ store.file_source_root[f] \in RootIds
    /\ store.file_relative_path[f] \in Paths
    /\ store.source_root[store.file_source_root[f]][store.file_relative_path[f]] = f

\* The roots a batch declares through add_root.
DeclaredRoots(c) == {c.new_roots[k][1] : k \in 1..Len(c.new_roots)}

\* The batch takes the entry of f, at path p of root r, out of the file set:
\* a library on r resets the set and does not add f again; or the batch
\* removes p from r, adds another file at p, or declares r again without
\* adding f again.
TakesOut(c, r, p, f) ==
    IF ResetsRoot(c, r)
    THEN \/ [root |-> r, file_id |-> f, path |-> p] \notin LibraryAdds(c)
         \/ \E a \in LibraryAdds(c) : a.root = r /\ a.path = p /\ a.file_id # f
    ELSE \/ p \in RemovedPaths(c, r)
         \/ \E a \in BatchAdds(c) : a.root = r /\ a.path = p /\ a.file_id # f
         \/ r \in DeclaredRoots(c) /\ f \notin AddedUnder(c, r)

\* The files a batch adds / removes, under any root.
AddedFiles(c) == {a.file_id : a \in BatchAdds(c)}
RemovedFiles(c) == UNION {RemovedFrom(c, r) : r \in RootIds}

\* No two files are given the same path of a root, and a file is removed
\* under the root and the path it was added with.
PathsApart(store, c) ==
    /\ \A a \in BatchAdds(c) :
          /\ store.source_root[a.root][a.path] \in {NoFile, a.file_id}
          /\ \A b \in BatchAdds(c) :
                (a.root = b.root /\ a.path = b.path) => a.file_id = b.file_id
    /\ \A rm \in Removals(c) :
          \/ [root |-> rm[1], file_id |-> rm[2], path |-> rm[3]] \in BatchAdds(c)
          \/ /\ store.file_source_root[rm[2]] = rm[1]
             /\ store.file_relative_path[rm[2]] = rm[3]

\* A root is declared before files are added to it: no batch adds files to a
\* root and then a library on that root.
DeclaredBeforeFiles(c) ==
    \A r \in RootIds : ResetsRoot(c, r) => c.roots_changed[r].added = <<>>

\* C23 as stated (for batches that keep the paths of a root apart): as long
\* as every file id is added under one root and one
\* path only and roots are declared before files are added to them, every
\* entry (P -> F) of the file set of a root R has
\* file_source_root(F) = R and file_relative_path(F) = P; and every file that
\* has been added and not removed is in the file set of its root, also after
\* its root is declared again by add_root or add_library.
C23_FileSetsAgree ==
    [][(Applied /\ OneRootOnePath(db, change) /\ PathsApart(db, change)
        /\ DeclaredBeforeFiles(change) /\ EntriesAgree(db)) =>
        /\ EntriesAgree(db')
        /\ \A f \in FileIds :
              (/\ InItsRoot(db, f) \/ f \in AddedFiles(change)
               /\ f \notin RemovedFiles(change)) =>
                  InItsRoot(db', f)]_vars

\* C23, amended: as long as every file id is added under one root and one
\* path only, every entry (P -> F) of the file set of a root R has
\* file_source_root(F) = R and file_relative_path(F) = P; and a file that is
\* in the file set of its root, or that the batch adds, is in it after the
\* batch unless the batch takes its entry out: by removing its path from the
\* root (under whatever file id), by adding another file at its path, or by
\* declaring the root again with add_root or add_library, which both reset
\* the file set to empty, without adding the file again.
C23_FileSetsAgreeUnlessReset ==
    [][(Applied /\ OneRootOnePath(db, change) /\ EntriesAgree(db)) =>
        /\ EntriesAgree(db')
        /\ \A f \in FileIds :
              (/\ InItsRoot(db, f) \/ f \in AddedFiles(change)
               /\ ~TakesOut(change, db'.file_source_root[f],
                            db'.file_relative_path[f], f)) =>
                  InItsRoot(db', f)]_vars

\* Two batches have been applied, and a file added by one of them is in the
\* file set of its root, at its path.
C23_Witness ==
    /\ host.nbatches = 2
    /\ host.pc = "idle"
    /\ \E f \in FileIds :
          /\ InItsRoot(db, f)
          /\ db.file_text[f] \in AddTexts

\* No file id is mentioned, added or removed, under two roots of the map.
NoSharedFile(c) ==
    \A r1, r2 \in RootIds :
        r1 # r2 =>
            (AddedUnder(c, r1) \cup RemovedFrom(c, r1))
            \cap (AddedUnder(c, r2) \cup RemovedFrom(c, r2)) = {}

\* C24. The store after apply_change does not depend on the order in which
\* the roots of the map roots_changed are visited, provided no file id is
\* mentioned under two roots of the batch: whatever order the run took, every
\* other order ends in the same file texts, paths, owning roots, file sets,
\* root lists and crate graph (and ends the same way, returning or panicking).
C24_OrderIndependent ==
    [][(host'.nbatches = host.nbatches + 1 /\ NoSharedFile(change)) =>
        \A order \in Perms(ChangedRoots(change)) :
            /\ apply_change(db, change, order).db = db'
            /\ apply_change(db, change, order).panicked = (host'.pc = "panicked")]_vars

\* One batch has changed two roots: each holds a file of its own.
C24_Witness ==
    /\ host.nbatches = 1
    /\ host.ncalls = 2
    /\ db.library_roots = <<>>
    /\ \E f1, f2 \in FileIds :
          /\ f1 # f2
          /\ InItsRoot(db, f1)
          /\ InItsRoot(db, f2)
          /\ db.file_source_root[f1] # db.file_source_root[f2]

\* resolve_callable has built the range in which it counts the commas.
SearchesRange ==
    /\ res.op = "resolve_callable"
    /\ res.out.result \in {"Ok", "Panicked"}
    /\ \/ res.out.result = "Panicked"
       \/ res.out.value.some /\ CountsCommas(res.in)

\* C25. Whenever resolve_callable counts commas, the range it searches is
\* well-formed: the start of the argument list of the call is not behind the
\* cursor, wherever in the call or method call the cursor is (on the name of
\* the callee, before the opening parenthesis, included) and whatever
\* function with more than one parameter is resolved.
C25_RangeWellFormed ==
    SearchesRange => res.out.value.range_search[1] <= res.out.value.range_search[2]

====
